---- MODULE Spec2Model ----
(***************************************************************************)
(* State-machine model of the record store of UNS-Shain-Daicho-Manager     *)
(* (src/src/database.py): the Field Normalizer (_clean,                    *)
(* _excel_date_to_iso), the three record tables with soft delete, the      *)
(* audit log, the importer and the analytics reads.                        *)
(*                                                                         *)
(* Column names are written with ASCII aliases:                            *)
(*   "status" = 現在      "haken"  = 派遣先    "name"  = 氏名              *)
(*   "nation" = 国籍      "jikyu"  = 時給      "visa"  = ビザ期限          *)
(*   "hire"   = 入社日    "leave"  = 退社日                                *)
(* and the in-service status value 在職中 is written "zaishoku".           *)
(***************************************************************************)
EXTENDS Integers, Sequences, FiniteSets, TLC

(***************************************************************************)
(* Bounds of the model.                                                    *)
(***************************************************************************)
\* ids that AUTOINCREMENT may issue per table before inserts are cut off
MaxId == 2
\* length of the runs explored: calls of the API and ticks of the clock
MaxSteps == 3
\* cached reads that hold an entry at the same time
MaxCached == 2

(***************************************************************************)
(* Python strings.  A string is modelled by what it spells:                *)
(*   Txt(s)      free text s (never the spelling of a number or a date)    *)
(*   IntStr(n)   the decimal digits of the integer n        "1200"         *)
(*   FloatStr(t) repr of the float t/10                     "1200.0"       *)
(*   Iso(d)      the date YYYY-MM-DD that is d days after 1899-12-30       *)
(*   InfStr      "inf", which float() reads as infinity                    *)
(* so two model strings are equal exactly when the Python strings are.     *)
(* SQL NULL / Python None as a stored value is NULL.                       *)
(***************************************************************************)
NULL == [k |-> "null"]
Txt(s) == [k |-> "text", s |-> s]
IntStr(n) == [k |-> "istr", n |-> n]
FloatStr(t) == [k |-> "fstr", t |-> t]
Iso(d) == [k |-> "date", d |-> d]
InfStr == [k |-> "infstr"]

(***************************************************************************)
(* Python values handed to the normalizer.  Floats are carried in tenths.  *)
(***************************************************************************)
PyNone == [k |-> "none"]
PyNaN == [k |-> "nan"]
PyStr(x) == [k |-> "str", x |-> x]
PyInt(n) == [k |-> "int", n |-> n]
PyFloat(t) == [k |-> "float", t |-> t]
PyInf == [k |-> "inf"]

\* the only strings of the model with surrounding or all-blank whitespace
Strip(x) ==
    IF x = Txt(" B ") THEN Txt("B")
    ELSE IF x = Txt("  ") THEN Txt("")
    ELSE x

\* str(value)
PyStrOf(v) ==
    CASE v.k = "str" -> v.x
      [] v.k = "int" -> IntStr(v.n)
      [] v.k = "float" -> FloatStr(v.t)
      [] v.k = "inf" -> InfStr
      [] v.k = "nan" -> Txt("nan")
      [] v.k = "none" -> Txt("None")

\* float(value) succeeds: numbers, and strings spelling a number
FloatOk(v) ==
    \/ v.k \in {"int", "float", "nan", "inf"}
    \/ v.k = "str" /\ Strip(v.x).k \in {"istr", "fstr", "infstr"}

\* float(value) is infinity
IsInf(v) == v.k = "inf" \/ (v.k = "str" /\ Strip(v.x) = InfStr)

\* float(value), in tenths (only where FloatOk, finite and not NaN)
FloatOf(v) ==
    CASE v.k = "int" -> 10 * v.n
      [] v.k = "float" -> v.t
      [] v.k = "str" /\ Strip(v.x).k = "istr" -> 10 * Strip(v.x).n
      [] v.k = "str" /\ Strip(v.x).k = "fstr" -> Strip(v.x).t

\* floor of t/10 for the tenths t
FloorTenths(t) == IF t >= 0 THEN t \div 10 ELSE -((-t + 9) \div 10)

(***************************************************************************)
(* Column definitions (database.py 30-63), restricted to the columns the   *)
(* code singles out by name.                                               *)
(***************************************************************************)
GENZAI_COLS == <<"status", "haken", "name", "nation", "jikyu", "visa", "hire", "leave">>
UKEOI_COLS == <<"status", "name", "nation", "jikyu", "visa", "hire", "leave">>
STAFF_COLS == <<"status", "name", "nation", "visa", "hire", "leave">>
DATE_COLS == {"visa", "hire", "leave"}
NUMERIC_COLS == {"jikyu"}
_ALL_TABLES == <<"genzai", "ukeoi", "staff">>

Range(f) == {f[i] : i \in DOMAIN f}
TABLES == Range(_ALL_TABLES)

_table_cols(table) ==
    CASE table = "genzai" -> GENZAI_COLS
      [] table = "ukeoi" -> UKEOI_COLS
      [] table = "staff" -> STAFF_COLS

Cols(table) == Range(_table_cols(table))

(***************************************************************************)
(* Field Normalizer                                                        *)
(***************************************************************************)
\* an exception that leaves the function, as its outcome
Raised(exc) == [k |-> "raise", exc |-> exc]

_excel_date_to_iso(value) ==
    IF value.k = "none" THEN NULL
    ELSE IF value.k = "nan" THEN NULL
    ELSE IF IsInf(value) THEN Raised("OverflowError")
    ELSE IF FloatOk(value)
         THEN IF FloatOf(value) = 0 THEN NULL
              ELSE Iso(FloorTenths(FloatOf(value)))
    ELSE IF value.k = "str" /\ Strip(value.x).k = "date" THEN Strip(value.x)
    ELSE NULL

SENTINELS == {IntStr(0), Txt("nan"), Txt("NaT"), Txt("None"), Txt("NaN"), Txt("")}

_clean(col, value) ==
    IF value.k = "none" THEN NULL
    ELSE IF value.k = "nan" THEN NULL
    ELSE LET sv == Strip(PyStrOf(value)) IN
         IF sv \in SENTINELS THEN NULL
         ELSE IF col \in DATE_COLS THEN _excel_date_to_iso(value)
         ELSE IF col \in NUMERIC_COLS /\ IsInf(value) THEN Raised("OverflowError")
         ELSE IF col \in NUMERIC_COLS /\ FloatOk(value)
              THEN LET f == FloatOf(value) IN
                   IF f % 10 = 0 THEN IntStr(f \div 10) ELSE FloatStr(f)
         ELSE sv

(***************************************************************************)
(* Persisted state.                                                        *)
(*   rows[t]   the live content of table t: id -> row, a row being          *)
(*             [f: column -> stored value, deleted_at, updated_at]         *)
(*   seq[t]    sqlite_sequence of table t (largest id ever issued)         *)
(*   audit     the audit_log table, in insertion order                     *)
(*   clock     wall clock in half-day ticks                                *)
(*   steps     calls and ticks so far                                      *)
(*   erased    the (table, id) pairs a hard delete has removed              *)
(*   ret       the last call of the store API and its outcome (see Outcome) *)
(*   cache     the dashboard's st.cache_data entries, by cached function    *)
(*   daicho    a ShainDaicho instance and the workbook at its filepath      *)
(***************************************************************************)
VARIABLES rows, seq, audit, clock, steps, ret, erased, sess, cache, daicho

vars == <<rows, seq, audit, clock, steps, ret, erased, sess, cache, daicho>>

\* the state of the layers above the store
app == <<cache, daicho>>

Ts(c) == [k |-> "ts", c |-> c]
SqlInt(n) == [k |-> "int", n |-> n]
None == [k |-> "none"]
LASTROWID == [k |-> "lastrowid"]

Ids == 1..MaxId

\* what a connection sees: the tables plus the cursors of its statements
View == [rows |-> rows, seq |-> seq, audit |-> audit, results |-> <<>>]

(***************************************************************************)
(* SQL statements, as the handlers issue them.                             *)
(***************************************************************************)
StInsert(table, vals) == [s |-> "insert", table |-> table, vals |-> vals]
StUpdate(table, row_id, vals) ==
    [s |-> "update", table |-> table, row_id |-> row_id, vals |-> vals]
StSoftDelete(table, row_id) == [s |-> "softdel", table |-> table, row_id |-> row_id]
StRestore(table, row_id) == [s |-> "restore", table |-> table, row_id |-> row_id]
StDelete(table, row_id) == [s |-> "delete", table |-> table, row_id |-> row_id]
StTruncate(table) == [s |-> "truncate", table |-> table]
StAudit(table_name, row_id, action, employee_name, changes) ==
    [s |-> "audit", table_name |-> table_name, row_id |-> row_id, action |-> action,
     employee_name |-> employee_name, changes |-> changes]
StCommit == [s |-> "commit"]

\* AuditAppend, were the insert to replace the log
AuditAppend_Replace(log, entry) == << entry >>

\* INSERT INTO audit_log: the new row goes after the rows already there
AuditAppend(log, entry) == Append(log, entry)

\* NextRowId, were the key a plain INTEGER PRIMARY KEY: one more than the
\* largest id the table holds now
NextRowId_Reuse(v, table) ==
    IF DOMAIN v.rows[table] = {} THEN 1
    ELSE (CHOOSE i \in DOMAIN v.rows[table] : \A j \in DOMAIN v.rows[table] : j <= i) + 1

\* id INTEGER PRIMARY KEY AUTOINCREMENT: one more than the largest id ever issued
NextRowId(v, table) == v.seq[table] + 1

Cursor(rowcount, lastrowid) == [rowcount |-> rowcount, lastrowid |-> lastrowid]

LastRowId(v) ==
    IF v.results = <<>> THEN 0 ELSE v.results[Len(v.results)].lastrowid

\* the effect of one statement on a connection's view, at wall-clock time now
Exec(v, st, now) ==
    CASE st.s = "insert" ->
           LET id == NextRowId(v, st.table)
               row == [f |-> [c \in Cols(st.table) |->
                                IF c \in DOMAIN st.vals THEN st.vals[c] ELSE NULL],
                       deleted_at |-> NULL,
                       updated_at |-> Ts(now)]
           IN [v EXCEPT !.rows[st.table] = (id :> row) @@ @,
                        !.seq[st.table] = id,
                        !.results = Append(@, Cursor(1, id))]
      [] st.s = "update" ->
           IF st.row_id \in DOMAIN v.rows[st.table]
           THEN [v EXCEPT !.rows[st.table][st.row_id].f =
                              [c \in Cols(st.table) |->
                                 IF c \in DOMAIN st.vals THEN st.vals[c] ELSE @[c]],
                          !.rows[st.table][st.row_id].updated_at = Ts(now),
                          !.results = Append(@, Cursor(1, LastRowId(v)))]
           ELSE [v EXCEPT !.results = Append(@, Cursor(0, LastRowId(v)))]
      [] st.s = "softdel" ->
           IF st.row_id \in DOMAIN v.rows[st.table]
           THEN [v EXCEPT !.rows[st.table][st.row_id].deleted_at = Ts(now),
                          !.results = Append(@, Cursor(1, LastRowId(v)))]
           ELSE [v EXCEPT !.results = Append(@, Cursor(0, LastRowId(v)))]
      [] st.s = "restore" ->
           IF st.row_id \in DOMAIN v.rows[st.table]
           THEN [v EXCEPT !.rows[st.table][st.row_id].deleted_at = NULL,
                          !.rows[st.table][st.row_id].updated_at = Ts(now),
                          !.results = Append(@, Cursor(1, LastRowId(v)))]
           ELSE [v EXCEPT !.results = Append(@, Cursor(0, LastRowId(v)))]
      [] st.s = "delete" ->
           IF st.row_id \in DOMAIN v.rows[st.table]
           THEN [v EXCEPT !.rows[st.table] =
                              [i \in (DOMAIN @) \ {st.row_id} |-> @[i]],
                          !.results = Append(@, Cursor(1, LastRowId(v)))]
           ELSE [v EXCEPT !.results = Append(@, Cursor(0, LastRowId(v)))]
      [] st.s = "truncate" ->
           [v EXCEPT !.rows[st.table] = <<>>,
                     !.results = Append(@, Cursor(Cardinality(DOMAIN v.rows[st.table]),
                                                  LastRowId(v)))]
      [] st.s = "audit" ->
           LET entry == [table_name |-> st.table_name,
                         row_id |-> IF st.row_id = LASTROWID
                                    THEN SqlInt(LastRowId(v)) ELSE st.row_id,
                         action |-> st.action,
                         employee_name |-> st.employee_name,
                         changes |-> st.changes,
                         changed_at |-> Ts(now)]
           IN [v EXCEPT !.audit = AuditAppend(@, entry),
                        !.results = Append(@, Cursor(1, Len(v.audit) + 1))]
      [] st.s = "commit" -> v

\* a handler's statements run to the end, none of them failing
RECURSIVE Run(_, _, _)
Run(v, plan, now) ==
    IF plan = <<>> THEN v ELSE Run(Exec(v, Head(plan), now), Tail(plan), now)

(***************************************************************************)
(* Values the API returns.                                                 *)
(***************************************************************************)
PyBool(b) == [k |-> "bool", b |-> b]
\* str(v) of a stored value: str(None) is "None"
StrOf(v) == IF v = NULL THEN Txt("None") ELSE v

\* Valid, were the values stored as given, without _clean
Valid_Raw(table, data) ==
    [k \in (DOMAIN data) \cap Cols(table) |->
       IF data[k].k \in {"none", "nan"} THEN NULL ELSE PyStrOf(data[k])]

\* {k: _clean(k, v) for k, v in data.items() if k in cols}
Valid(table, data) ==
    [k \in (DOMAIN data) \cap Cols(table) |-> _clean(k, data[k])]

get_employee(r, table, row_id) ==
    IF row_id \in DOMAIN r[table] THEN r[table][row_id] ELSE None

\* emp.get("氏名", "") if emp else ""
NameOf(emp) == IF emp = None THEN Txt("") ELSE emp.f["name"]

(***************************************************************************)
(* Record Store handlers: the statements each one issues.                  *)
(***************************************************************************)
AddPlan(table, data) ==
    LET valid == Valid(table, data)
        name == IF "name" \in DOMAIN valid THEN valid["name"] ELSE Txt("")
    IN << StInsert(table, valid),
          StAudit(table, LASTROWID, "INSERT", name,
                  [k \in DOMAIN valid |-> StrOf(valid[k])]),
          StCommit >>

\* str(old.get(k, "")) for the row (or {}) that get_employee returned
OldStr(old, k) == IF old = None THEN Txt("") ELSE StrOf(old.f[k])

\* the per-field diff of update_employee
Changed(old, valid) ==
    LET ks == {k \in DOMAIN valid :
                 OldStr(old, k) # (IF valid[k] = NULL THEN Txt("") ELSE valid[k])}
    IN [k \in ks |-> [old |-> OldStr(old, k), new |-> StrOf(valid[k])]]

UpdatePlan(old, table, row_id, data) ==
    LET valid == Valid(table, data)
        changed == Changed(old, valid)
        name == NameOf(old)
    IN << StUpdate(table, row_id, valid) >>
       \o (IF DOMAIN changed # {}
           THEN << StAudit(table, SqlInt(row_id), "UPDATE", name, changed) >>
           ELSE << >>)
       \o << StCommit >>

DeletePlan(emp, table, row_id) ==
    << StSoftDelete(table, row_id),
       StAudit(table, SqlInt(row_id), "DELETE", NameOf(emp), NULL),
       StCommit >>

RestorePlan(emp, table, row_id) ==
    << StRestore(table, row_id),
       StAudit(table, SqlInt(row_id), "RESTORE", NameOf(emp), NULL),
       StCommit >>

\* HardDeletePlan, were the audit insert left out
HardDeletePlan_NoAudit(emp, table, row_id) ==
    << StDelete(table, row_id), StCommit >>

HardDeletePlan(emp, table, row_id) ==
    << StDelete(table, row_id),
       StAudit(table, SqlInt(row_id), "HARD_DELETE", NameOf(emp), NULL),
       StCommit >>

\* the date at clock 0, as a day serial (2026-11-02)
Today0 == 46328

(***************************************************************************)
(* Reads.  Each takes the committed tables r it is evaluated on.           *)
(***************************************************************************)
ZAISHOKU == Txt("zaishoku")

\* IsActive, were every staff row taken as in service
IsActive_AllStaff(table, row) ==
    table \in {"genzai", "ukeoi"} => row.f["status"] = ZAISHOKU

\* the active_only clause of get_all, per table
IsActive(table, row) ==
    IF table \in {"genzai", "ukeoi"}
    THEN row.f["status"] = ZAISHOKU
    ELSE row.f["hire"] # NULL /\ row.f["leave"] = NULL

\* the ids of the rows SELECT * FROM table WHERE ... returns
get_all(r, table, active_only, include_deleted) ==
    {i \in DOMAIN r[table] :
        /\ include_deleted \/ r[table][i].deleted_at = NULL
        /\ active_only => IsActive(table, r[table][i])}

\* the ids of the soft-deleted rows
get_deleted(r, table) ==
    {i \in DOMAIN r[table] : r[table][i].deleted_at # NULL}

\* get_summary_stats, were the active counts taken over the deleted rows too
get_summary_stats_ActiveAll(r) ==
    LET total(t) == Cardinality({i \in DOMAIN r[t] : r[t][i].deleted_at = NULL})
        active(t) ==
            IF t \in {"genzai", "ukeoi"}
            THEN Cardinality({i \in DOMAIN r[t] : r[t][i].f["status"] = ZAISHOKU})
            ELSE Cardinality({i \in DOMAIN r[t] :
                     r[t][i].f["hire"] # NULL /\ r[t][i].f["leave"] = NULL})
        per == [t \in TABLES |->
                  [total |-> total(t), active |-> active(t),
                   retired |-> total(t) - active(t)]]
        sum(k) == per["genzai"][k] + per["ukeoi"][k] + per["staff"][k]
    IN [genzai |-> per["genzai"], ukeoi |-> per["ukeoi"], staff |-> per["staff"],
        total |-> [total |-> sum("total"), active |-> sum("active"),
                   retired |-> sum("retired")]]

get_summary_stats(r) ==
    LET total(t) == Cardinality({i \in DOMAIN r[t] : r[t][i].deleted_at = NULL})
        active(t) ==
            IF t \in {"genzai", "ukeoi"}
            THEN Cardinality({i \in DOMAIN r[t] :
                     r[t][i].f["status"] = ZAISHOKU /\ r[t][i].deleted_at = NULL})
            ELSE Cardinality({i \in DOMAIN r[t] :
                     /\ r[t][i].f["hire"] # NULL /\ r[t][i].f["leave"] = NULL
                     /\ r[t][i].deleted_at = NULL})
        per == [t \in TABLES |->
                  [total |-> total(t), active |-> active(t),
                   retired |-> total(t) - active(t)]]
        sum(k) == per["genzai"][k] + per["ukeoi"][k] + per["staff"][k]
    IN [genzai |-> per["genzai"], ukeoi |-> per["ukeoi"], staff |-> per["staff"],
        total |-> [total |-> sum("total"), active |-> sum("active"),
                   retired |-> sum("retired")]]

\* datetime.now() at clock c: the date as a day serial, and the half of the day
DayOf(c) == Today0 + (c \div 2)
TimeOfDay(c) == c % 2

\* (expiry - today).days: whole days, rounded down, from the instant c to
\* midnight of the day d
DaysLeft(d, c) ==
    LET halves == 2 * (d - DayOf(c)) - TimeOfDay(c)
    IN IF halves >= 0 THEN halves \div 2 ELSE -((-halves + 1) \div 2)

AlertClass(days_left) ==
    IF days_left <= 0 THEN "expired"
    ELSE IF days_left <= 30 THEN "urgent"
    ELSE IF days_left <= 60 THEN "warning"
    ELSE "upcoming"

TableIndex(t) == CHOOSE i \in DOMAIN _ALL_TABLES : _ALL_TABLES[i] = t

\* SortAlerts, were the final sort left out: the alerts stay in table order
RECURSIVE SortAlerts_ByTable(_)
SortAlerts_ByTable(S) ==
    IF S = {} THEN << >>
    ELSE LET less(a, b) ==
                 \/ TableIndex(a.table) < TableIndex(b.table)
                 \/ a.table = b.table /\ a.expiry_date.d < b.expiry_date.d
                 \/ a.table = b.table /\ a.expiry_date.d = b.expiry_date.d /\ a.id <= b.id
             first == CHOOSE a \in S : \A b \in S : less(a, b)
         IN << first >> \o SortAlerts_ByTable(S \ {first})

\* alerts.sort(key=days_left) over the per-table SELECT ... ORDER BY "ビザ期限"
RECURSIVE SortAlerts(_)
SortAlerts(S) ==
    IF S = {} THEN << >>
    ELSE LET key(a) == <<a.days_left, TableIndex(a.table), a.id>>
             less(a, b) ==
                 \/ key(a)[1] < key(b)[1]
                 \/ key(a)[1] = key(b)[1] /\ key(a)[2] < key(b)[2]
                 \/ key(a)[1] = key(b)[1] /\ key(a)[2] = key(b)[2]
                    /\ key(a)[3] <= key(b)[3]
             first == CHOOSE a \in S : \A b \in S : less(a, b)
         IN << first >> \o SortAlerts(S \ {first})

get_visa_alerts(r, now, days) ==
    LET cutoff == DayOf(now) + days
        hit(t) == {i \in DOMAIN r[t] :
                     /\ r[t][i].f["visa"] # NULL
                     /\ r[t][i].f["visa"] # Txt("")
                     /\ r[t][i].f["visa"].d <= cutoff
                     /\ r[t][i].deleted_at = NULL
                     /\ t \in {"genzai", "ukeoi"} => r[t][i].f["status"] = ZAISHOKU}
        alert(t, i) ==
            LET row == r[t][i]
                days_left == DaysLeft(row.f["visa"].d, now)
            IN [id |-> i, table |-> t,
                name |-> IF row.f["name"] = NULL THEN Txt("-") ELSE row.f["name"],
                expiry_date |-> row.f["visa"],
                days_left |-> days_left,
                alert_class |-> AlertClass(days_left)]
    IN SortAlerts(UNION {{alert(t, i) : i \in hit(t)} : t \in TABLES})

\* get_nationality_breakdown, were the deleted_at filter left out
get_nationality_breakdown_All(r) ==
    [t \in TABLES |->
       LET live == {i \in DOMAIN r[t] : r[t][i].f["nation"] # NULL}
       IN [n \in {r[t][i].f["nation"] : i \in live} |->
             Cardinality({i \in live : r[t][i].f["nation"] = n})]]

\* per table, nationality -> number of live rows
get_nationality_breakdown(r) ==
    [t \in TABLES |->
       LET live == {i \in DOMAIN r[t] :
                      r[t][i].f["nation"] # NULL /\ r[t][i].deleted_at = NULL}
       IN [n \in {r[t][i].f["nation"] : i \in live} |->
             Cardinality({i \in live : r[t][i].f["nation"] = n})]]

\* round(n / d * 100, 1), in tenths of a percent (halves go to the even tenth)
Percentage(n, d) ==
    LET q == (n * 1000) \div d
        rem == (n * 1000) % d
    IN IF 2 * rem > d \/ (2 * rem = d /\ q % 2 = 1) THEN q + 1 ELSE q

\* the companies of the live genzai rows with their counts and shares; the
\* LIMIT keeps the top_n largest (between equal counts, the company whose first row is older)
get_hakensaki_breakdown(r, top_n) ==
    LET live == {i \in DOMAIN r["genzai"] :
                   /\ r["genzai"][i].f["haken"] # NULL
                   /\ r["genzai"][i].deleted_at = NULL}
        members(c) == {i \in live : r["genzai"][i].f["haken"] = c}
        cnt(c) == Cardinality(members(c))
        lead(c) == CHOOSE i \in members(c) : \A j \in members(c) : i <= j
        before(c1, c2) ==
            cnt(c1) > cnt(c2) \/ (cnt(c1) = cnt(c2) /\ lead(c1) < lead(c2))
        companies == {r["genzai"][i].f["haken"] : i \in live}
        all == Cardinality({i \in DOMAIN r["genzai"] :
                              r["genzai"][i].deleted_at = NULL})
        total == IF all = 0 THEN 1 ELSE all
    IN {[company |-> c, count |-> cnt(c), percentage |-> Percentage(cnt(c), total)] :
          c \in {c \in companies :
                   Cardinality({c2 \in companies : before(c2, c)}) < top_n}}

(***************************************************************************)
(* Importer.  A workbook is [exists, sheets: table -> sheet]; a sheet is   *)
(* UNREADABLE or [columns: sequence of header names, rows: sequence of     *)
(* header -> cell].  read_excel(dtype=str) yields strings and NaN only.    *)
(* "alert" is the calculated column ｱﾗｰﾄ(ﾋﾞｻﾞ更新).                         *)
(***************************************************************************)
UNREADABLE == [k |-> "unreadable"]

\* the staff sheet's first column is renamed to 現在, and the alert column dropped
Remap(table, df) ==
    LET first == df.columns[1]
        ren(c) == IF table = "staff" /\ first # "status" /\ c = first
                  THEN "status" ELSE c
        unren(c) == IF table = "staff" /\ first # "status" /\ c = "status"
                    THEN first ELSE c
        kept == SelectSeq([i \in DOMAIN df.columns |-> ren(df.columns[i])],
                          LAMBDA c : c # "alert")
    IN [columns |-> kept,
        rows |-> [i \in DOMAIN df.rows |->
                    [c \in Range(kept) |-> df.rows[i][unren(c)]]]]

\* the rows of a readable sheet that import_from_excel inserts, normalized
ImportRows(table, sheet) ==
    LET df == Remap(table, sheet)
        active == Cols(table) \cap Range(df.columns)
        vals == [i \in DOMAIN df.rows |-> [c \in active |-> _clean(c, df.rows[i][c])]]
    IN SelectSeq(vals, LAMBDA r : \E c \in DOMAIN r : r[c] # NULL)

ImportCount(table, source) ==
    IF source.sheets[table] = UNREADABLE THEN 0
    ELSE Len(ImportRows(table, source.sheets[table]))

\* ImportSheetPlan, were the table not emptied before its rows are inserted
ImportSheetPlan_Merge(table, source) ==
    IF source.sheets[table] = UNREADABLE THEN << >>
    ELSE LET ins == ImportRows(table, source.sheets[table])
         IN [i \in DOMAIN ins |-> StInsert(table, ins[i])] \o << StCommit >>

\* ImportSheetPlan, were the DELETE committed before the rows are inserted
ImportSheetPlan_CommitAfterDelete(table, source) ==
    IF source.sheets[table] = UNREADABLE THEN << >>
    ELSE LET ins == ImportRows(table, source.sheets[table])
         IN << StTruncate(table), StCommit >>
            \o [i \in DOMAIN ins |-> StInsert(table, ins[i])]
            \o << StCommit >>

\* ImportSheetPlan, were the table emptied before its sheet is read
ImportSheetPlan_DeleteFirst(table, source) ==
    IF source.sheets[table] = UNREADABLE THEN << StTruncate(table), StCommit >>
    ELSE LET ins == ImportRows(table, source.sheets[table])
         IN << StTruncate(table) >>
            \o [i \in DOMAIN ins |-> StInsert(table, ins[i])]
            \o << StCommit >>

ImportSheetPlan(table, source) ==
    IF source.sheets[table] = UNREADABLE THEN << >>
    ELSE LET ins == ImportRows(table, source.sheets[table])
         IN << StTruncate(table) >>
            \o [i \in DOMAIN ins |-> StInsert(table, ins[i])]
            \o << StCommit >>

\* ImportPlan, were an unreadable sheet to end the loop over the sheets
ImportPlan_StopAtUnreadable(source) ==
    LET upto == {n \in 0..Len(_ALL_TABLES) :
                   \A i \in 1..n : source.sheets[_ALL_TABLES[i]] # UNREADABLE}
        last == CHOOSE n \in upto : \A m \in upto : m <= n
        RECURSIVE sheets(_)
        sheets(i) == IF i > last THEN << >>
                     ELSE ImportSheetPlan(_ALL_TABLES[i], source) \o sheets(i + 1)
    IN sheets(1)
       \o << StAudit("*", NULL, "IMPORT", Txt("system"),
                     [t \in TABLES |-> ImportCount(t, source)]),
             StCommit >>

ImportPlan(source) ==
    ImportSheetPlan(_ALL_TABLES[1], source)
    \o ImportSheetPlan(_ALL_TABLES[2], source)
    \o ImportSheetPlan(_ALL_TABLES[3], source)
    \o << StAudit("*", NULL, "IMPORT", Txt("system"),
                  [t \in TABLES |-> ImportCount(t, source)]),
          StCommit >>

\* what preview_excel reports for one sheet: the frame as read, the first
\* column of the staff sheet renamed, or the error of the read
PreviewSheet(table, source) ==
    IF ~source.exists \/ source.sheets[table] = UNREADABLE
    THEN [label |-> table, rows |-> 0, error |-> "read_excel"]
    ELSE LET df == source.sheets[table]
             first == df.columns[1]
             rename == table = "staff" /\ first # "status"
             ren(c) == IF rename /\ c = first THEN "status" ELSE c
             unren(c) == IF rename /\ c = "status" THEN first ELSE c
             columns == [i \in DOMAIN df.columns |-> ren(df.columns[i])]
             head == SubSeq(df.rows, 1, IF Len(df.rows) < 5 THEN Len(df.rows) ELSE 5)
         IN [label |-> table,
             rows |-> Len(df.rows),
             sample |-> [i \in DOMAIN head |->
                           [c \in Range(columns) |-> head[i][unren(c)]]],
             columns |-> columns]

(***************************************************************************)
(* Inputs.                                                                 *)
(***************************************************************************)
D1 ==
    "name" :> PyStr(Txt("A")) @@ "status" :> PyStr(Txt("zaishoku"))
    @@ "haken" :> PyStr(Txt("X")) @@ "nation" :> PyStr(Txt("VN"))
    @@ "jikyu" :> PyInt(1200) @@ "visa" :> PyStr(Iso(Today0 + 20))
    @@ "hire" :> PyInt(45000) @@ "bogus" :> PyStr(Txt("x"))

D2 ==
    "name" :> PyStr(Txt(" B ")) @@ "status" :> PyStr(Txt("taishoku"))
    @@ "nation" :> PyStr(Txt("  ")) @@ "jikyu" :> PyStr(IntStr(0))
    @@ "visa" :> PyInt(Today0 - 1)

D3 == "bogus" :> PyStr(Txt("x"))

AddInputs == {D1, D2, D3}

U1 ==
    "status" :> PyStr(Txt("taishoku")) @@ "name" :> PyStr(Txt("A"))
    @@ "nation" :> PyNone
U2 == "name" :> PyStr(Txt("A")) @@ "jikyu" :> PyStr(FloatStr(12000))
U3 == "bogus" :> PyInt(1)

UpdateInputs == {U1, U2, U3}

Cell(x) == PyStr(x)

GenzaiSheet ==
    [columns |-> <<"status", "name", "visa", "nation", "alert">>,
     rows |-> << "status" :> Cell(Txt("zaishoku")) @@ "name" :> Cell(Txt("A"))
                 @@ "visa" :> Cell(Iso(Today0 + 20)) @@ "nation" :> Cell(Txt("VN"))
                 @@ "alert" :> Cell(Txt("x")),
                 "status" :> PyNaN @@ "name" :> Cell(Txt("  "))
                 @@ "visa" :> Cell(IntStr(0)) @@ "nation" :> PyNaN
                 @@ "alert" :> Cell(Txt("x")),
                 "status" :> Cell(Txt("taishoku")) @@ "name" :> Cell(Txt(" B "))
                 @@ "visa" :> PyNaN @@ "nation" :> Cell(Txt("JP"))
                 @@ "alert" :> PyNaN >>]

UkeoiSheet ==
    [columns |-> <<"status", "name", "jikyu">>,
     rows |-> << "status" :> Cell(Txt("zaishoku")) @@ "name" :> Cell(Txt("C"))
                 @@ "jikyu" :> Cell(FloatStr(12000)) >>]

StaffSheet ==
    [columns |-> <<"unnamed", "name", "hire", "leave">>,
     rows |-> << "unnamed" :> PyNaN @@ "name" :> Cell(Txt("S"))
                 @@ "hire" :> Cell(IntStr(45000)) @@ "leave" :> PyNaN >>]

Book1 ==
    [exists |-> TRUE,
     sheets |-> [genzai |-> GenzaiSheet, ukeoi |-> UkeoiSheet, staff |-> StaffSheet]]
Book2 ==
    [exists |-> TRUE,
     sheets |-> [genzai |-> UNREADABLE, ukeoi |-> UkeoiSheet, staff |-> StaffSheet]]
Book3 ==
    [exists |-> FALSE,
     sheets |-> [genzai |-> UNREADABLE, ukeoi |-> UNREADABLE, staff |-> UNREADABLE]]

Sources == {Book1, Book2, Book3}

(***************************************************************************)
(* The store API, one action per call.                                     *)
(***************************************************************************)
Budget == steps < MaxSteps

\* the ids a call is addressed to: those the table has issued, and the next one,
\* which stands for every id that was never issued
TargetIds(table) == {i \in Ids : i <= seq[table] + 1}

\* the rows, present or not, that differ between two contents of the tables
Touched(r1, r2) ==
    {p \in TABLES \X Ids : get_employee(r1, p[1], p[2]) # get_employee(r2, p[1], p[2])}

\* a call of the API on (table, row_id) with its argument (0 and "*" where the
\* call has none)
Call(op, table, row_id, arg) ==
    [op |-> op, table |-> table, row_id |-> row_id, arg |-> arg]

\* what ret remembers of a finished call: what it returned or raised, the
\* addressed row as it was before the call, how many audit rows the call
\* added and which rows it changed
Before(call) ==
    IF call.row_id \in Ids THEN get_employee(rows, call.table, call.row_id) ELSE None

Outcome(call, val, r2, a2) ==
    call @@ [val |-> val,
             before |-> Before(call),
             logged |-> Len(a2) - Len(audit),
             touched |-> Touched(rows, r2)]

\* the rows a successful hard delete has removed for good
Erase(call, val) ==
    IF call.op = "hard_delete_employee" /\ val = PyBool(TRUE)
    THEN {<<call.table, call.row_id>>} ELSE {}

\* conn.commit() and return val
Commit(v, call, val) ==
    /\ rows' = v.rows
    /\ seq' = v.seq
    /\ audit' = v.audit
    /\ ret' = Outcome(call, val, v.rows, v.audit)
    /\ erased' = erased \cup Erase(call, val)
    /\ steps' = steps + 1
    /\ UNCHANGED <<clock, sess, app>>

\* return or raise before any statement ran
Fail(call, val) ==
    /\ ret' = Outcome(call, val, rows, audit)
    /\ steps' = steps + 1
    /\ UNCHANGED <<rows, seq, audit, clock, erased, sess, app>>

init_db ==
    /\ Budget
    /\ Fail(Call("init_db", "*", 0, None), None)

\* add_employee, were an INSERT with no column accepted: it stores a row of
\* NULLs and returns its id
add_employee_AllNull(table, data) ==
    /\ Budget
    /\ seq[table] < MaxId
    /\ LET v == Run(View, AddPlan(table, data), clock)
       IN Commit(v, Call("add_employee", table, 0, data),
                 SqlInt(v.results[1].lastrowid))

add_employee(table, data) ==
    /\ Budget
    /\ LET call == Call("add_employee", table, 0, data) IN
       IF DOMAIN Valid(table, data) = {}
       THEN Fail(call, Raised("OperationalError"))
       ELSE /\ seq[table] < MaxId
            /\ LET v == Run(View, AddPlan(table, data), clock)
               IN Commit(v, call, SqlInt(v.results[1].lastrowid))

update_employee(table, row_id, data) ==
    /\ Budget
    /\ LET call == Call("update_employee", table, row_id, data) IN
       IF DOMAIN Valid(table, data) = {}
       THEN Fail(call, PyBool(FALSE))
       ELSE LET old == get_employee(rows, table, row_id)
                v == Run(View, UpdatePlan(old, table, row_id, data), clock)
            IN Commit(v, call, PyBool(TRUE))

delete_employee(table, row_id) ==
    /\ Budget
    /\ LET emp == get_employee(rows, table, row_id)
           v == Run(View, DeletePlan(emp, table, row_id), clock)
       IN Commit(v, Call("delete_employee", table, row_id, None),
                 PyBool(v.results[1].rowcount > 0))

restore_employee(table, row_id) ==
    /\ Budget
    /\ LET emp == get_employee(rows, table, row_id)
           v == Run(View, RestorePlan(emp, table, row_id), clock)
       IN Commit(v, Call("restore_employee", table, row_id, None),
                 PyBool(v.results[1].rowcount > 0))

hard_delete_employee(table, row_id) ==
    /\ Budget
    /\ LET emp == get_employee(rows, table, row_id)
           v == Run(View, HardDeletePlan(emp, table, row_id), clock)
       IN Commit(v, Call("hard_delete_employee", table, row_id, None),
                 PyBool(v.results[1].rowcount > 0))

\* import_from_excel, were the check of the path left out: every read of a
\* missing file fails and is skipped like an unreadable sheet
import_from_excel_Unchecked(source) ==
    /\ Budget
    /\ \A t \in TABLES : seq[t] + ImportCount(t, source) <= MaxId
    /\ Commit(Run(View, ImportPlan(source), clock),
              Call("import_from_excel", "*", 0, source),
              [t \in TABLES |-> ImportCount(t, source)])

import_from_excel(source) ==
    /\ Budget
    /\ LET call == Call("import_from_excel", "*", 0, source) IN
       IF ~source.exists
       THEN Fail(call, Raised("FileNotFoundError"))
       ELSE /\ \A t \in TABLES : seq[t] + ImportCount(t, source) <= MaxId
            /\ LET v == Run(View, ImportPlan(source), clock)
               IN Commit(v, call, [t \in TABLES |-> ImportCount(t, source)])

\* preview_excel, were it to load what it reads
preview_excel_Importing(source) ==
    /\ Budget
    /\ source.exists
    /\ \A t \in TABLES : seq[t] + ImportCount(t, source) <= MaxId
    /\ Commit(Run(View, ImportPlan(source), clock),
              Call("preview_excel", "*", 0, source),
              [t \in TABLES |-> PreviewSheet(t, source)])

preview_excel(source) ==
    /\ Budget
    /\ Fail(Call("preview_excel", "*", 0, source),
            [t \in TABLES |-> PreviewSheet(t, source)])

\* wall-clock time passes
Tick ==
    /\ Budget
    /\ clock' = clock + 1
    /\ steps' = steps + 1
    /\ UNCHANGED <<rows, seq, audit, ret, erased, sess, app>>

\* the connections calls are served on; a connection is opened by _get_conn for
\* one call and closed when the call ends
Sessions == {"s1", "s2"}

\* a connection no call has used yet
Closed ==
    [pc |-> 0, call |-> None, plan |-> << >>, view |-> None, results |-> << >>,
     pending |-> {}, persisted |-> {}, before |-> None, logged |-> 0, touched |-> {}]

\* ShainDaicho.__init__: nothing is loaded
NewDaicho ==
    [file |-> Book3, _loaded |-> FALSE, df |-> None, built |-> "__init__",
     last |-> None]

Init ==
    /\ cache = [k \in {} |-> None]
    /\ daicho = [NewDaicho EXCEPT !.file = Book1]
    /\ sess = [s \in Sessions |-> Closed]
    /\ rows = [t \in TABLES |-> << >>]
    /\ seq = [t \in TABLES |-> 0]
    /\ audit = << >>
    /\ clock = 0
    /\ steps = 0
    /\ erased = {}
    /\ ret = [op |-> "init_db", table |-> "*", row_id |-> 0, arg |-> None,
              val |-> None, before |-> None, logged |-> 0, touched |-> {}]

Next ==
    \/ init_db
    \/ \E table \in TABLES, data \in AddInputs : add_employee(table, data)
    \/ \E table \in TABLES : \E row_id \in TargetIds(table), data \in UpdateInputs :
          update_employee(table, row_id, data)
    \/ \E table \in TABLES : \E row_id \in TargetIds(table) :
          delete_employee(table, row_id)
    \/ \E table \in TABLES : \E row_id \in TargetIds(table) :
          restore_employee(table, row_id)
    \/ \E table \in TABLES : \E row_id \in TargetIds(table) :
          hard_delete_employee(table, row_id)
    \/ \E source \in Sources : import_from_excel(source)
    \/ \E source \in Sources : preview_excel(source)
    \/ Tick

Spec == Init /\ [][Next]_vars

(***************************************************************************)
(* The same calls, one statement at a time.  A call opens a connection,    *)
(* runs its statements inside the transaction sqlite3 begins before the    *)
(* first of them, commits and closes; an exception leaves through          *)
(* finally: conn.close(), which rolls the open transaction back.  Other    *)
(* connections see the tables as of the last commit, and one connection    *)
(* writes at a time.                                                       *)
(***************************************************************************)
TxnAddInputs == {D1, D3}
TxnUpdateInputs == {U1, U3}

\* the table the calls of this specification address; the import still loads
\* all three
TxnTables == {"genzai"}

TxnCalls ==
    {Call("add_employee", t, 0, d) : t \in TxnTables, d \in TxnAddInputs}
    \cup UNION {{Call("update_employee", t, i, d) : i \in TargetIds(t), d \in TxnUpdateInputs}
                : t \in TxnTables}
    \cup UNION {{Call(op, t, i, None) : i \in TargetIds(t),
                   op \in {"delete_employee", "restore_employee", "hard_delete_employee"}}
                : t \in TxnTables}
    \cup {Call("import_from_excel", "*", 0, b) : b \in Sources}

\* what a call returns or raises before it runs a statement, if it does
NoEarly == [k |-> "noearly"]

Early(call) ==
    CASE call.op = "add_employee" /\ DOMAIN Valid(call.table, call.arg) = {} ->
           Raised("OperationalError")
      [] call.op = "update_employee" /\ DOMAIN Valid(call.table, call.arg) = {} ->
           PyBool(FALSE)
      [] call.op = "import_from_excel" /\ ~call.arg.exists ->
           Raised("FileNotFoundError")
      [] OTHER -> NoEarly

\* the statements a call will run, given the tables r its reads see
PlanOf(r, call) ==
    LET emp == get_employee(r, call.table, call.row_id) IN
    CASE call.op = "add_employee" -> AddPlan(call.table, call.arg)
      [] call.op = "update_employee" -> UpdatePlan(emp, call.table, call.row_id, call.arg)
      [] call.op = "delete_employee" -> DeletePlan(emp, call.table, call.row_id)
      [] call.op = "restore_employee" -> RestorePlan(emp, call.table, call.row_id)
      [] call.op = "hard_delete_employee" -> HardDeletePlan(emp, call.table, call.row_id)
      [] call.op = "import_from_excel" -> ImportPlan(call.arg)

\* what a call returns once its statements have run
Returned(call, results) ==
    CASE call.op = "add_employee" -> SqlInt(results[1].lastrowid)
      [] call.op = "update_employee" -> PyBool(TRUE)
      [] call.op \in {"delete_employee", "restore_employee", "hard_delete_employee"} ->
           PyBool(results[1].rowcount > 0)
      [] call.op = "import_from_excel" -> [t \in TABLES |-> ImportCount(t, call.arg)]

\* Publishes, were the connection opened with isolation_level=None
Publishes_Autocommit(st) == TRUE

\* the statements that make a connection's writes visible to the others: the
\* connection is opened with the default isolation level, so only commit does
Publishes(st) == st.s = "commit"

\* what a statement adds to the transaction: a changed row, an audit entry
Effect(st, cur) ==
    IF st.s = "audit" THEN {"audit"}
    ELSE IF st.s \in {"insert", "update", "softdel", "restore", "delete"}
            /\ cur.rowcount > 0
         THEN {"row"} ELSE {}

\* a call is served on the first connection that is free
FirstFree(s) ==
    /\ sess[s].pc = 0
    /\ \A o \in Sessions : (o = "s1" /\ s = "s2") => sess[o].pc # 0

\* the call starts: arguments are cleaned, the row is read on a connection of
\* its own, the connection for the writes is opened
TxBegin(s, call) ==
    /\ Budget
    /\ FirstFree(s)
    /\ call.op = "import_from_excel" /\ call.arg.exists =>
          \A t \in TABLES : seq[t] + ImportCount(t, call.arg) <= MaxId
    /\ steps' = steps + 1
    /\ UNCHANGED <<rows, seq, audit, clock, erased, app>>
    /\ IF Early(call) # NoEarly
       THEN /\ ret' = Outcome(call, Early(call), rows, audit)
            /\ UNCHANGED sess
       ELSE /\ sess' = [sess EXCEPT ![s] =
                          [Closed EXCEPT !.pc = 1, !.call = call,
                                         !.plan = PlanOf(rows, call),
                                         !.before = Before(call)]]
            /\ UNCHANGED ret

\* the next statement of the call runs; after the last one the call returns
TxExec(s) ==
    LET c == sess[s] IN
    /\ c.pc \in 1..Len(c.plan)
    /\ LET st == c.plan[c.pc]
           v0 == IF c.view = None
                 THEN [rows |-> rows, seq |-> seq, audit |-> audit, results |-> c.results]
                 ELSE c.view
       IN
       \* the write lock: a transaction starts when no other one is open
       /\ (c.view = None /\ st.s # "commit") =>
              \A o \in Sessions \ {s} : sess[o].view = None
       /\ st.s = "insert" => v0.seq[st.table] < MaxId
       /\ LET v1 == Exec(v0, st, clock)
              eff == c.pending \cup
                       (IF st.s = "commit" THEN {}
                        ELSE Effect(st, v1.results[Len(v1.results)]))
              last == c.pc = Len(c.plan)
              pub == Publishes(st)
              logged == c.logged + (IF pub THEN Len(v1.audit) - Len(audit) ELSE 0)
              touched == c.touched \cup (IF pub THEN Touched(rows, v1.rows) ELSE {})
              val == Returned(c.call, v1.results)
          IN /\ IF pub
                THEN /\ rows' = v1.rows
                     /\ seq' = v1.seq
                     /\ audit' = v1.audit
                ELSE UNCHANGED <<rows, seq, audit>>
             /\ sess' = [sess EXCEPT ![s] =
                           [c EXCEPT !.pc = IF last THEN 0 ELSE c.pc + 1,
                                     !.view = IF pub \/ last THEN None ELSE v1,
                                     !.results = v1.results,
                                     !.pending = IF pub \/ last THEN {} ELSE eff,
                                     !.persisted = IF pub THEN @ \cup eff ELSE @,
                                     !.logged = logged,
                                     !.touched = touched]]
             /\ IF last
                THEN /\ ret' = c.call @@ [val |-> val, before |-> c.before,
                                          logged |-> logged, touched |-> touched]
                     /\ erased' = erased \cup (IF pub THEN Erase(c.call, val) ELSE {})
                ELSE UNCHANGED <<ret, erased>>
             /\ UNCHANGED <<clock, steps, app>>

\* the next statement raises instead: finally closes the connection, and what
\* the open transaction wrote is rolled back
TxAbort(s) ==
    LET c == sess[s] IN
    /\ c.pc \in 1..Len(c.plan)
    /\ sess' = [sess EXCEPT ![s] = [c EXCEPT !.pc = 0, !.view = None, !.pending = {}]]
    /\ ret' = c.call @@ [val |-> Raised("sqlite3.Error"), before |-> c.before,
                         logged |-> c.logged, touched |-> c.touched]
    /\ UNCHANGED <<rows, seq, audit, clock, steps, erased, app>>

NextTxn ==
    \/ \E s \in Sessions : \E call \in TxnCalls : TxBegin(s, call)
    \/ \E s \in Sessions : TxExec(s)
    \/ \E s \in Sessions : TxAbort(s)

SpecTxn == Init /\ [][NextTxn]_vars

(***************************************************************************)
(* The normalizer on its own: _clean applied to a column and a value.      *)
(***************************************************************************)
\* one column of each role and the columns of the other tables
NormCols == Range(GENZAI_COLS)

NormValues ==
    {PyNone, PyNaN, PyInt(0), PyFloat(0), PyInt(1200), PyInt(45000),
     PyFloat(12000), PyFloat(12005), PyFloat(450005), PyInf}
    \cup {PyStr(x) : x \in {Txt(""), Txt("  "), Txt("nan"), Txt("NaN"), Txt("NaT"),
                             Txt("None"), Txt("A"), Txt(" B "), IntStr(0), IntStr(1200),
                             FloatStr(0), FloatStr(12000), Iso(Today0), InfStr}}

\* what _clean(col, value) can end with.  pd.Timedelta(days=inf) is library
\* code: the conversion of infinity either raises OverflowError, which
\* _excel_date_to_iso does not catch, or a ValueError, which it turns into None
CleanOutcomes(col, value) ==
    {_clean(col, value)}
    \cup (IF col \in DATE_COLS /\ IsInf(value) THEN {NULL} ELSE {})

Normalize(col, value) ==
    /\ \E val \in CleanOutcomes(col, value) :
          ret' = [op |-> "_clean", table |-> "*", row_id |-> 0,
                  arg |-> [col |-> col, value |-> value],
                  val |-> val,
                  before |-> None, logged |-> 0, touched |-> {}]
    /\ UNCHANGED <<rows, seq, audit, clock, steps, erased, sess, app>>

NextNorm == \E col \in NormCols, value \in NormValues : Normalize(col, value)

SpecNorm == Init /\ [][NextNorm]_vars

(***************************************************************************)
(* The dashboard: cached reads, and the handlers of its buttons, which     *)
(* call the store and then clear the caches.  One script run at a time.    *)
(***************************************************************************)
CacheKeys ==
    {"fetch_all", "fetch_summary", "fetch_visa", "fetch_nationality", "fetch_hakensaki"}

\* what the function behind a cached read computes from the store now
\* (fetch_all of genzai, fetch_visa of 90 days, fetch_hakensaki of the top 10)
Fresh(k) ==
    CASE k = "fetch_all" ->
           [i \in get_all(rows, "genzai", FALSE, FALSE) |-> rows["genzai"][i]]
      [] k = "fetch_summary" -> get_summary_stats(rows)
      [] k = "fetch_visa" -> get_visa_alerts(rows, clock, 90)
      [] k = "fetch_nationality" -> get_nationality_breakdown(rows)
      [] k = "fetch_hakensaki" -> get_hakensaki_breakdown(rows, 10)

\* fetch_*.clear() for the five cached functions
_invalidate_cache == [k \in {} |-> None]

\* @st.cache_data: the entry if there is one, else the function's result,
\* which is kept
cache_data(k) ==
    /\ Cardinality(DOMAIN cache \cup {k}) <= MaxCached
    /\ LET val == IF k \in DOMAIN cache THEN cache[k] ELSE Fresh(k) IN
       /\ cache' = [j \in DOMAIN cache \cup {k} |-> IF j = k THEN val ELSE cache[j]]
       /\ ret' = Call(k, "*", 0, None)
                  @@ [val |-> val, before |-> None, logged |-> 0, touched |-> {}]
    /\ UNCHANGED <<rows, seq, audit, clock, steps, erased, sess, daicho>>

\* ttl=5 / ttl=30: an entry is dropped when its time is up
Expire(k) ==
    /\ k \in DOMAIN cache
    /\ cache' = [j \in DOMAIN cache \ {k} |-> cache[j]]
    /\ UNCHANGED <<rows, seq, audit, clock, steps, ret, erased, sess, daicho>>

\* try: db.<call>(...); _invalidate_cache(); ... st.rerun()
\* except Exception: st.error(...)
Handle(call) ==
    /\ Budget
    /\ steps' = steps + 1
    /\ UNCHANGED <<clock, sess, daicho>>
    /\ IF Early(call) # NoEarly
       THEN /\ ret' = Outcome(call, Early(call), rows, audit)
            /\ cache' = IF Early(call).k = "raise" THEN cache ELSE _invalidate_cache
            /\ UNCHANGED <<rows, seq, audit, erased>>
       ELSE /\ call.op = "add_employee" => seq[call.table] < MaxId
            /\ call.op = "import_from_excel" =>
                  \A t \in TABLES : seq[t] + ImportCount(t, call.arg) <= MaxId
            /\ LET v == Run(View, PlanOf(rows, call), clock)
                   val == Returned(call, v.results)
               IN /\ rows' = v.rows
                  /\ seq' = v.seq
                  /\ audit' = v.audit
                  /\ ret' = Outcome(call, val, v.rows, v.audit)
                  /\ erased' = erased \cup Erase(call, val)
                  /\ cache' = _invalidate_cache

\* the rows the editor shows, in the order of the list
Shown(table) ==
    SelectSeq([i \in 1..MaxId |-> i],
              LAMBDA i : i \in get_all(rows, table, FALSE, FALSE))

\* the first n updates of an inline save, each a call of update_employee
RECURSIVE SaveRows(_, _, _, _, _)
SaveRows(v, table, ids, diff, n) ==
    IF n = 0 THEN v
    ELSE LET u == SaveRows(v, table, ids, diff, n - 1)
             old == get_employee(u.rows, table, ids[n])
         IN Run([u EXCEPT !.results = << >>],
                UpdatePlan(old, table, ids[n], diff), clock)

\* the inline save: one update_employee per edited row, the caches cleared
\* once after the loop if any row was saved.  fail = 0: every update
\* returns; fail = n: the n-th raises, and except reports the error
inline_save(table, diff, fail) ==
    /\ Budget
    /\ fail \in 0..Len(Shown(table))
    /\ LET ids == Shown(table)
           done == IF fail = 0 THEN Len(ids) ELSE fail - 1
           v == SaveRows(View, table, ids, diff, done)
           val == IF fail = 0 THEN SqlInt(done) ELSE Raised("Exception")
       IN /\ rows' = v.rows
          /\ seq' = v.seq
          /\ audit' = v.audit
          /\ ret' = Outcome(Call("inline_save", table, 0, diff), val, v.rows, v.audit)
          /\ cache' = IF fail = 0 /\ done > 0 THEN _invalidate_cache ELSE cache
    /\ steps' = steps + 1
    /\ UNCHANGED <<clock, erased, sess, daicho>>

add_form(table, data) == Handle(Call("add_employee", table, 0, data))
detail_save(table, row_id, data) == Handle(Call("update_employee", table, row_id, data))
delete_button(table, row_id) == Handle(Call("delete_employee", table, row_id, None))
restore_button(table, row_id) == Handle(Call("restore_employee", table, row_id, None))
hard_delete_button(table, row_id) ==
    Handle(Call("hard_delete_employee", table, row_id, None))
import_go(source) == Handle(Call("import_from_excel", "*", 0, source))

DashDiffs == {U1, U2}

NextDash ==
    \/ \E k \in CacheKeys : cache_data(k)
    \/ \E k \in CacheKeys : Expire(k)
    \/ \E table \in TxnTables, data \in TxnAddInputs : add_form(table, data)
    \/ \E table \in TxnTables : \E row_id \in TargetIds(table), data \in DashDiffs :
          detail_save(table, row_id, data)
    \/ \E table \in TxnTables, diff \in DashDiffs, fail \in 0..MaxId :
          inline_save(table, diff, fail)
    \/ \E table \in TxnTables : \E row_id \in TargetIds(table) :
          delete_button(table, row_id)
    \/ \E table \in TxnTables : \E row_id \in TargetIds(table) :
          restore_button(table, row_id)
    \/ \E table \in TxnTables : \E row_id \in TargetIds(table) :
          hard_delete_button(table, row_id)
    \/ \E source \in Sources : import_go(source)

SpecDash == Init /\ [][NextDash]_vars

(***************************************************************************)
(* ShainDaicho: the workbook read into data frames, and its queries.       *)
(***************************************************************************)
DaichoQueries ==
    {"get_summary_stats", "search_employee", "get_visa_alerts",
     "get_active_employees", "export_active_employees", "to_json_summary"}

\* what ret holds of a call on the instance
DaichoCall(op, val) ==
    [op |-> op, table |-> "*", row_id |-> 0, arg |-> None, val |-> val,
     before |-> None, logged |-> 0, touched |-> {}]

DaichoFrame == <<rows, seq, audit, clock, steps, erased, sess, cache>>

\* the sheets load() has read when it stops: all three, or those before the
\* first one that read_excel raises on
FramesRead(file, df) ==
    LET bad == {i \in 1..Len(_ALL_TABLES) : file.sheets[_ALL_TABLES[i]] = UNREADABLE}
        upto == IF bad = {} THEN Len(_ALL_TABLES)
                ELSE (CHOOSE i \in bad : \A j \in bad : i <= j) - 1
    IN [t \in TABLES |->
          IF TableIndex(t) <= upto THEN file.sheets[t]
          ELSE IF df = None THEN None ELSE df[t]]

\* ShainDaicho(filepath)
__init__ ==
    /\ daicho' = [NewDaicho EXCEPT !.file = daicho.file]
    /\ ret' = DaichoCall("__init__", None)
    /\ UNCHANGED DaichoFrame

\* ShainDaicho.from_dataframes(...): the instance holds the frames it is given
\* and counts as loaded; its filepath names no file
from_dataframes(source) ==
    /\ \A t \in TABLES : source.sheets[t] # UNREADABLE
    /\ daicho' = [file |-> daicho.file, _loaded |-> TRUE, df |-> source.sheets,
                  built |-> "from_dataframes", last |-> None]
    /\ ret' = DaichoCall("from_dataframes", None)
    /\ UNCHANGED DaichoFrame

\* the file the instance's filepath names
FileOf(d) == IF d.built = "from_dataframes" THEN Book3 ELSE d.file

\* load(): False at once if the file is missing; else the sheets are read in
\* turn, and an exception marks the instance as not loaded
load ==
    /\ LET file == FileOf(daicho)
           ok == file.exists /\ \A t \in TABLES : file.sheets[t] # UNREADABLE
       IN /\ daicho' = [daicho EXCEPT
                          !.df = IF file.exists THEN FramesRead(file, @) ELSE @,
                          !._loaded = IF file.exists THEN ok ELSE @,
                          !.last = PyBool(ok)]
          /\ ret' = DaichoCall("load", PyBool(ok))
    /\ UNCHANGED DaichoFrame

\* a query: _ensure_loaded(), then the answer from the frames held
Query(q) ==
    /\ ret' = DaichoCall(q, IF ~daicho._loaded THEN Raised("RuntimeError")
                            ELSE [k |-> "data", df |-> daicho.df])
    /\ UNCHANGED <<DaichoFrame, daicho>>

\* the workbook at the path is replaced, damaged or removed
WriteFile(source) ==
    /\ daicho.file # source
    /\ daicho' = [daicho EXCEPT !.file = source]
    /\ UNCHANGED <<DaichoFrame, ret>>

NextDaicho ==
    \/ __init__
    \/ \E source \in Sources : from_dataframes(source)
    \/ load
    \/ \E q \in DaichoQueries : Query(q)
    \/ \E source \in Sources : WriteFile(source)

SpecDaicho == Init /\ [][NextDaicho]_vars

(***************************************************************************)
(* Properties.                                                             *)
(***************************************************************************)
LastAudit == audit[Len(audit)]

\* the row the last call was addressed to, as it is now
RetRow == get_employee(rows, ret.table, ret.row_id)

RowOps == {"update_employee", "delete_employee", "restore_employee",
           "hard_delete_employee"}

ActionOf(op) ==
    CASE op = "add_employee" -> "INSERT"
      [] op = "update_employee" -> "UPDATE"
      [] op = "delete_employee" -> "DELETE"
      [] op = "restore_employee" -> "RESTORE"
      [] op = "hard_delete_employee" -> "HARD_DELETE"

\* the last call was an update of an existing row that changed a stored field
UpdateChangedField ==
    /\ ret.op = "update_employee"
    /\ ret.before # None
    /\ RetRow.f # ret.before.f

\* C1: an add that returned an id, a delete, restore or hard delete that
\* returned true on an existing row, and an update that changed a field of an
\* existing row each added exactly one audit row, and that row names the
\* call's table, the row's id and the call's action.
C1_OneAuditEntryPerMutation ==
    /\ (ret.op = "add_employee" /\ ret.val.k = "int") =>
          /\ ret.logged = 1
          /\ LastAudit.table_name = ret.table
          /\ LastAudit.row_id = ret.val
          /\ LastAudit.action = "INSERT"
    /\ (\/ ret.op \in {"delete_employee", "restore_employee", "hard_delete_employee"}
           /\ ret.before # None /\ ret.val = PyBool(TRUE)
        \/ UpdateChangedField) =>
          /\ ret.logged = 1
          /\ LastAudit.table_name = ret.table
          /\ LastAudit.row_id = SqlInt(ret.row_id)
          /\ LastAudit.action = ActionOf(ret.op)

C1_Witness ==
    /\ ret.op = "hard_delete_employee"
    /\ ret.before # None
    /\ ret.val = PyBool(TRUE)
    /\ ret.logged = 1
    /\ Len(audit) >= 2

\* C2: an update, delete, restore or hard delete addressed to an id the table
\* does not hold adds no audit row.
C2_FailedMutationLogsNothing ==
    (ret.op \in RowOps /\ ret.before = None) => ret.logged = 0

\* C4: an update, delete, restore or hard delete addressed to an id the table
\* does not hold returns false, leaves get_employee returning None and
\* changes no row.
C4_NotFoundReturnsFalse ==
    (ret.op \in RowOps /\ ret.before = None) =>
       /\ ret.val = PyBool(FALSE)
       /\ RetRow = None
       /\ ret.touched = {}

Live(table) == get_all(rows, table, FALSE, FALSE)

\* C5: after a delete of an existing row the default get_all leaves it out
\* and get_deleted lists it; after a restore get_all lists it again; neither
\* touches the stored fields; and a row removed by a hard delete is never
\* returned by get_employee again.
C5_SoftDeleteLifecycle ==
    /\ (ret.op = "delete_employee" /\ ret.before # None) =>
          /\ ret.row_id \notin Live(ret.table)
          /\ ret.row_id \in get_deleted(rows, ret.table)
          /\ RetRow.f = ret.before.f
    /\ (ret.op = "restore_employee" /\ ret.before # None) =>
          /\ ret.row_id \in Live(ret.table)
          /\ RetRow.f = ret.before.f
    /\ \A p \in erased : get_employee(rows, p[1], p[2]) = None

\* a row was hard-deleted and a later add went into the same table
C5_Witness ==
    /\ ret.op = "add_employee"
    /\ ret.val.k = "int"
    /\ \E p \in erased : p[1] = ret.table

\* the tables without the row (table, i)
Without(r, table, i) ==
    [r EXCEPT ![table] = [j \in (DOMAIN @) \ {i} |-> @[j]]]

AlertDays == {5, 30, 90}
TopN == {1, 15}

\* C6: a soft-deleted row is left out of the default get_all and adds nothing
\* to the summary, the visa alerts, the nationality breakdown and the company
\* breakdown, while get_employee still returns it; a restore makes it live.
C6_DeletedRowsExcluded ==
    /\ \A t \in TABLES : \A i \in DOMAIN rows[t] :
          rows[t][i].deleted_at # NULL =>
             /\ i \notin Live(t)
             /\ get_summary_stats(rows) = get_summary_stats(Without(rows, t, i))
             /\ \A days \in AlertDays :
                   \A a \in Range(get_visa_alerts(rows, clock, days)) :
                      ~(a.table = t /\ a.id = i)
             /\ get_nationality_breakdown(rows)
                   = get_nationality_breakdown(Without(rows, t, i))
             /\ \A n \in TopN :
                   get_hakensaki_breakdown(rows, n)
                      = get_hakensaki_breakdown(Without(rows, t, i), n)
             /\ get_employee(rows, t, i) = rows[t][i]
    /\ (ret.op = "restore_employee" /\ ret.before # None) =>
          /\ RetRow.deleted_at = NULL
          /\ ret.row_id \in Live(ret.table)

\* a soft-deleted genzai row that is in service, has a company, a nationality
\* and a visa date inside the alert window
C6_Witness ==
    \E i \in DOMAIN rows["genzai"] :
       LET row == rows["genzai"][i] IN
       /\ row.deleted_at # NULL
       /\ IsActive("genzai", row)
       /\ row.f["haken"] # NULL
       /\ row.f["nation"] # NULL
       /\ row.f["visa"] # NULL
       /\ row.f["visa"].d <= DayOf(clock) + 30

\* C7: after an add that returned an id, the row of that id holds
\* _clean(field, value) for every supplied column of the table, NULL for
\* every other column and no delete timestamp; columns the table does not
\* have are not stored.
C7_AddRoundTrip ==
    /\ (ret.op = "add_employee" /\ ret.val.k = "int") =>
          LET row == get_employee(rows, ret.table, ret.val.n) IN
          /\ row # None
          /\ row.f = [c \in Cols(ret.table) |->
                        IF c \in DOMAIN ret.arg THEN _clean(c, ret.arg[c]) ELSE NULL]
          /\ row.deleted_at = NULL

\* an add to staff of a mapping with a blank value, a zero, a padded name and
\* a column staff does not have
C7_Witness ==
    /\ ret.op = "add_employee"
    /\ ret.table = "staff"
    /\ ret.arg = D2
    /\ ret.val.k = "int"

\* the columns whose stored value the last update changed
ChangedFields == {k \in Cols(ret.table) : RetRow.f[k] # ret.before.f[k]}

\* C8: an update of an existing row that changed a stored field added exactly
\* one UPDATE audit row whose payload lists exactly the changed columns, each
\* with the value stored before as old and the value stored after as new.
C8_UpdatePayloadIsTheDiff ==
    UpdateChangedField =>
       /\ ret.logged = 1
       /\ LastAudit.action = "UPDATE"
       /\ DOMAIN LastAudit.changes = ChangedFields
       /\ \A k \in ChangedFields :
             /\ LastAudit.changes[k].old = StrOf(ret.before.f[k])
             /\ LastAudit.changes[k].new = StrOf(RetRow.f[k])

\* C9: an update of an existing row in which every supplied column of the
\* table normalizes to the value already stored (NULL included) returns true
\* and adds no audit row.
C9_NoOpUpdateLogsNothing ==
    (/\ ret.op = "update_employee"
     /\ ret.before # None
     /\ DOMAIN Valid(ret.table, ret.arg) # {}
     /\ \A k \in DOMAIN Valid(ret.table, ret.arg) :
           Valid(ret.table, ret.arg)[k] = ret.before.f[k]) =>
       /\ ret.val = PyBool(TRUE)
       /\ ret.logged = 0

\* C3: for add, update, delete, restore and hardDelete the row change and its
\* audit entry are committed in one transaction: whatever the other connections
\* can see, at any point of the call and after an error in the middle of it,
\* holds both or neither.  The calls that write no entry (an update that changes
\* nothing) or change no row (an id that matches nothing) have no pair to keep
\* together.
CrudOps ==
    {"add_employee", "update_employee", "delete_employee", "restore_employee",
     "hard_delete_employee"}

HasAudit(plan) == \E i \in DOMAIN plan : plan[i].s = "audit"

InsertLogged(table, n) ==
    \E k \in DOMAIN audit :
       /\ audit[k].table_name = table
       /\ audit[k].row_id = SqlInt(n)
       /\ audit[k].action = "INSERT"

C3_RowAndAuditCommitTogether ==
    \A s \in Sessions :
       LET c == sess[s] IN
       c.call # None /\ c.call.op \in CrudOps =>
          /\ (HasAudit(c.plan) /\ "row" \in c.pending \cup c.persisted) =>
                ("row" \in c.persisted <=> "audit" \in c.persisted)
          /\ (c.call.op = "add_employee" /\ c.pc > 0 /\ c.results # << >>) =>
                (c.results[1].lastrowid \in DOMAIN rows[c.call.table]
                   <=> InsertLogged(c.call.table, c.results[1].lastrowid))

\* an update changed its row inside the transaction, then the audit insert
\* raised: the call is over and nothing of it was committed
C3_Witness ==
    \E s \in Sessions :
       LET c == sess[s] IN
       /\ c.pc = 0
       /\ c.call # None
       /\ c.call.op = "update_employee"
       /\ HasAudit(c.plan)
       /\ Len(c.results) = 1
       /\ c.results[1].rowcount = 1
       /\ c.persisted = {}
       /\ ret.val = Raised("sqlite3.Error")
       /\ ret.op = "update_employee"
       /\ ret.touched = {}
       /\ ret.logged = 0

\* C11: in every state the summary's aggregate has total = active + retired,
\* its total is the sum of the three tables' totals, and each table has
\* total = active + retired with 0 <= active <= total.
C11_SummaryTotalsAddUp ==
    LET s == get_summary_stats(rows) IN
    /\ s.total.total = s.total.active + s.total.retired
    /\ s.total.total = s.genzai.total + s.ukeoi.total + s.staff.total
    /\ \A t \in TABLES :
          /\ s[t].total = s[t].active + s[t].retired
          /\ 0 <= s[t].active
          /\ s[t].active <= s[t].total

\* live rows in service and out of service next to a soft-deleted row that
\* was in service
C11_Witness ==
    LET s == get_summary_stats(rows) IN
    /\ s.total.active >= 1
    /\ s.total.retired >= 1
    /\ \E t \in TABLES : \E i \in DOMAIN rows[t] :
          rows[t][i].deleted_at # NULL /\ IsActive(t, rows[t][i])

\* the import of Book1 went through: two genzai rows (one in service, one
\* not), one ukeoi row in service, one staff row with a hire date and no
\* leave date
ImportedBook1 ==
    /\ ret.op = "import_from_excel"
    /\ ret.arg = Book1
    /\ ret.val # Raised("FileNotFoundError")

\* C12: per table the summary's total is the number of rows the default
\* get_all returns and its active count the number get_all(active_only=True)
\* returns; after the import of Book1 the aggregate is total 4, active 3,
\* retired 1.
C12_SummaryCountsWhatGetAllReturns ==
    LET s == get_summary_stats(rows) IN
    /\ \A t \in TABLES :
          /\ s[t].total = Cardinality(get_all(rows, t, FALSE, FALSE))
          /\ s[t].active = Cardinality(get_all(rows, t, TRUE, FALSE))
    /\ ImportedBook1 => s.total = [total |-> 4, active |-> 3, retired |-> 1]

\* Book1 was imported: genzai holds a row in service and one that is not
C12_Witness ==
    /\ ImportedBook1
    /\ get_summary_stats(rows).genzai = [total |-> 2, active |-> 1, retired |-> 1]
    /\ Cardinality(get_all(rows, "staff", TRUE, FALSE)) = 1

\* the rows get_visa_alerts(days) reports, as (table, id) pairs
AlertIds(days) ==
    {<<a.table, a.id>> : a \in Range(get_visa_alerts(rows, clock, days))}

\* the rows that are not deleted, are in service by their table's predicate
\* and have a visa date on or before today + days
Due(days) ==
    {p \in TABLES \X Ids :
        /\ p[2] \in DOMAIN rows[p[1]]
        /\ LET row == rows[p[1]][p[2]] IN
           /\ row.deleted_at = NULL
           /\ IsActive(p[1], row)
           /\ row.f["visa"] # NULL
           /\ row.f["visa"].d <= DayOf(clock) + days}

\* C13: get_visa_alerts(days) reports exactly the rows of the three tables
\* that are not deleted, are in service and have a visa date on or before
\* today + days; so a smaller window reports a subset of a larger one, and a
\* row expiring 20 days from today is reported for 30 days and not for 5.
C13_AlertsAreTheDueActiveRows ==
    /\ \A days \in AlertDays : AlertIds(days) = Due(days)
    /\ \A d1, d2 \in AlertDays : d1 <= d2 => AlertIds(d1) \subseteq AlertIds(d2)
    /\ \A p \in Due(90) :
          rows[p[1]][p[2]].f["visa"].d = DayOf(clock) + 20 =>
             p \in AlertIds(30) /\ p \notin AlertIds(5)

\* the severity the thresholds give a number of days left
Severity(n) ==
    IF n <= 0 THEN "expired"
    ELSE IF n \in 1..30 THEN "urgent"
    ELSE IF n \in 31..60 THEN "warning"
    ELSE "upcoming"

\* C14: every alert's severity is the one the thresholds give its days_left
\* (expired at 0 and below, urgent for 1..30, warning for 31..60, upcoming
\* above), and the alerts of the three tables come as one sequence in
\* ascending order of days_left.
C14_SeverityAndOrder ==
    /\ \A n \in -2..62 : AlertClass(n) = Severity(n)
    /\ \A days \in AlertDays :
          LET alerts == get_visa_alerts(rows, clock, days) IN
          /\ \A k \in DOMAIN alerts :
                alerts[k].alert_class = Severity(alerts[k].days_left)
          /\ \A j, k \in DOMAIN alerts :
                j < k => alerts[j].days_left <= alerts[k].days_left

\* alerts of two tables, the later table's being the more urgent one
C14_Witness ==
    LET alerts == get_visa_alerts(rows, clock, 30) IN
    /\ Len(alerts) = 2
    /\ alerts[1].table = "staff"
    /\ alerts[1].alert_class = "expired"
    /\ alerts[2].table = "genzai"
    /\ alerts[2].alert_class = "urgent"

\* C15: every alert's days_left is the number of days from today's date to
\* the visa date: negative when the date is before today, zero when it is
\* today, positive when it is later, at whatever time of day the query runs.
C15_DaysLeftIsTheDateDifference ==
    \A days \in AlertDays :
       \A a \in Range(get_visa_alerts(rows, clock, days)) :
          a.days_left = a.expiry_date.d - DayOf(clock)

\* a step that is a completed import_from_excel
ImportStep ==
    /\ ret'.op = "import_from_excel"
    /\ ret'.val # Raised("FileNotFoundError")
    /\ steps' = steps + 1
    /\ clock' = clock

\* the rows of a sheet with at least one non-null normalized value in a column
\* of the table
KeptRows(table, sheet) ==
    LET df == Remap(table, sheet) IN
    {i \in DOMAIN df.rows :
        \E c \in Cols(table) \cap Range(df.columns) : _clean(c, df.rows[i][c]) # NULL}

\* the fields a source row is stored with
StoredAs(table, sheet, i) ==
    LET df == Remap(table, sheet) IN
    [c \in Cols(table) |->
       IF c \in Range(df.columns) THEN _clean(c, df.rows[i][c]) ELSE NULL]

\* C16: a completed import leaves in each table whose sheet was readable
\* exactly one live row per source row that has a non-null normalized value,
\* holding that row's normalized values; no row the table held before, live or
\* soft-deleted, is left, and the count returned for the table is its number
\* of rows.
C16_ImportReplacesTheTable ==
    [][ImportStep =>
         \A t \in TABLES :
            ret'.arg.sheets[t] # UNREADABLE =>
               LET sheet == ret'.arg.sheets[t]
                   kept == KeptRows(t, sheet)
                   new == DOMAIN rows'[t]
               IN /\ new \cap DOMAIN rows[t] = {}
                  /\ ret'.val[t] = Cardinality(new)
                  /\ \A i \in new : rows'[t][i].deleted_at = NULL
                  /\ \E g \in [kept -> new] :
                        /\ \A i \in new : \E k \in kept : g[k] = i
                        /\ \A j, k \in kept : g[j] = g[k] => j = k
                        /\ \A k \in kept : rows'[t][g[k]].f = StoredAs(t, sheet, k)]_vars

\* an import removed a row that had been soft-deleted
C16_Witness ==
    /\ ret.op = "import_from_excel"
    /\ ret.val # Raised("FileNotFoundError")
    /\ \E p \in ret.touched :
          /\ ret.arg.sheets[p[1]] # UNREADABLE
          /\ p[2] \notin DOMAIN rows[p[1]]
          /\ DOMAIN rows[p[1]] # {}
          /\ \E k \in DOMAIN audit :
                /\ audit[k].action = "DELETE"
                /\ audit[k].table_name = p[1]
                /\ audit[k].row_id = SqlInt(p[2])

\* C17: an import of an existing file does not fail; a table whose sheet
\* cannot be read gets the count 0, the tables whose sheets can be read are
\* loaded all the same, and the sheets are taken in the order genzai, ukeoi,
\* staff.
C17_UnreadableSheetIsSkipped ==
    (ret.op = "import_from_excel" /\ ret.arg.exists) =>
       /\ DOMAIN ret.val = TABLES
       /\ \A t \in TABLES :
             IF ret.arg.sheets[t] = UNREADABLE
             THEN ret.val[t] = 0
             ELSE /\ ret.val[t] = Cardinality(KeptRows(t, ret.arg.sheets[t]))
                  /\ ret.val[t] = Cardinality(DOMAIN rows[t])
       /\ LET loads == SelectSeq(ImportPlan(ret.arg), LAMBDA st : st.s = "truncate")
          IN \A j, k \in DOMAIN loads :
                j < k => TableIndex(loads[j].table) < TableIndex(loads[k].table)

\* Book2, whose genzai sheet cannot be read, was imported over a genzai row:
\* the row is still there, ukeoi and staff are loaded
C17_Witness ==
    /\ ret.op = "import_from_excel"
    /\ ret.arg = Book2
    /\ ret.val = [genzai |-> 0, ukeoi |-> 1, staff |-> 1]
    /\ DOMAIN rows["genzai"] # {}
    /\ DOMAIN rows["ukeoi"] # {}
    /\ DOMAIN rows["staff"] # {}

\* C18: a completed import adds exactly one audit row, of action IMPORT, with
\* no row id, whose payload is the per-table counts the call returns; an
\* import of a missing file raises, adds no audit row and changes no row.
C18_OneImportAuditEntry ==
    ret.op = "import_from_excel" =>
       IF ret.arg.exists
       THEN /\ ret.logged = 1
            /\ LastAudit.action = "IMPORT"
            /\ LastAudit.table_name = "*"
            /\ LastAudit.row_id = NULL
            /\ LastAudit.changes = ret.val
            /\ DOMAIN ret.val = TABLES
       ELSE /\ ret.val = Raised("FileNotFoundError")
            /\ ret.logged = 0
            /\ ret.touched = {}

\* an import that loaded rows into two tables, after an earlier call
C18_Witness ==
    /\ ret.op = "import_from_excel"
    /\ ret.arg.exists
    /\ Len(audit) >= 2
    /\ LastAudit.changes = [genzai |-> 0, ukeoi |-> 1, staff |-> 1]

\* C19: preview_excel changes no row, no delete timestamp and no audit row,
\* whether the file is readable, partly readable or missing, and reports a
\* sheet it cannot read as label and error while the other sheets are
\* previewed.
C19_PreviewChangesNothing ==
    ret.op = "preview_excel" =>
       /\ ret.touched = {}
       /\ ret.logged = 0
       /\ DOMAIN ret.val = TABLES
       /\ \A t \in TABLES :
             IF ~ret.arg.exists \/ ret.arg.sheets[t] = UNREADABLE
             THEN DOMAIN ret.val[t] = {"label", "rows", "error"}
             ELSE /\ "error" \notin DOMAIN ret.val[t]
                  /\ ret.val[t].rows = Len(ret.arg.sheets[t].rows)

\* a preview of Book2 over a store that holds rows
C19_Witness ==
    /\ ret.op = "preview_excel"
    /\ ret.arg = Book2
    /\ "error" \in DOMAIN ret.val["genzai"]
    /\ ret.val["ukeoi"].rows = 1
    /\ \E t \in TABLES : DOMAIN rows[t] # {}
    /\ Len(audit) >= 1

\* a missing value, NaN, a blank string, the number zero as an integer, a
\* float or the text "0", or one of the sentinel strings
NullLike(v) ==
    \/ v \in {PyNone, PyNaN, PyInt(0), PyFloat(0)}
    \/ /\ v.k = "str"
       /\ Strip(v.x) \in {Txt(""), IntStr(0), Txt("nan"), Txt("NaN"), Txt("NaT"),
                           Txt("None")}

\* C20: _clean gives NULL, in every column, for a missing value, NaN, a blank
\* or whitespace-only string, the number zero (integer 0, float 0.0, text
\* "0") and the sentinel strings nan, NaN, NaT, None; so a date serial 0 and an
\* empty string do not become the date 1899-12-30.
C20_NullLikeValuesNormalizeToNull ==
    (ret.op = "_clean" /\ NullLike(ret.arg.value)) => ret.val = NULL

\* C21: in a numeric column _clean gives NULL for every value float() cannot
\* convert, and otherwise the decimal string of the number, without a
\* fractional part when the number is integral (the values that normalize to
\* NULL in every column aside).
C21_NumericColumnStoresNumbersOnly ==
    (ret.op = "_clean" /\ ret.arg.col \in NUMERIC_COLS /\ ~IsInf(ret.arg.value)) =>
       LET v == ret.arg.value IN
       IF ~FloatOk(v) \/ v = PyNaN
       THEN ret.val = NULL
       ELSE \/ NullLike(v) /\ ret.val = NULL
            \/ ret.val = (IF FloatOf(v) % 10 = 0 THEN IntStr(FloatOf(v) \div 10)
                          ELSE FloatStr(FloatOf(v)))

\* C22: _clean ends with a stored value or NULL for every column and every
\* value, unparseable date text and infinity in a numeric or date column
\* included; it raises nothing.
C22_NormalizeNeverRaises ==
    ret.op = "_clean" => ret.val.k # "raise"

\* C23: an add whose mapping holds no column of the table fails: it raises,
\* returns no id, stores no row (no row of NULLs either) and adds no audit
\* row; an update whose mapping holds no column of the table returns False,
\* changes no row and adds no audit row.
C23_NoRecognizedFieldChangesNothing ==
    /\ (ret.op = "add_employee" /\ DOMAIN Valid(ret.table, ret.arg) = {}) =>
          /\ ret.val.k = "raise"
          /\ ret.touched = {}
          /\ ret.logged = 0
          /\ \A i \in DOMAIN rows[ret.table] :
                \E c \in Cols(ret.table) : rows[ret.table][i].f[c] # NULL
    /\ (ret.op = "update_employee" /\ DOMAIN Valid(ret.table, ret.arg) = {}) =>
          /\ ret.val = PyBool(FALSE)
          /\ ret.touched = {}
          /\ ret.logged = 0

\* an add with no column of the table failed in a table that holds a row
C23_Witness ==
    /\ ret.op = "add_employee"
    /\ DOMAIN Valid(ret.table, ret.arg) = {}
    /\ DOMAIN ret.arg # {}
    /\ ret.val.k = "raise"
    /\ DOMAIN rows[ret.table] # {}
    /\ Len(audit) > 0

\* the supplied fields of the last update all normalize to what the row held
NoOpUpdate ==
    /\ ret.before # None
    /\ \A k \in DOMAIN Valid(ret.table, ret.arg) :
          Valid(ret.table, ret.arg)[k] = ret.before.f[k]

\* C26: an update none of whose supplied fields differs, normalized, from the
\* stored value leaves the row as it was, updated_at included; every update
\* leaves the columns it was not given, deleted_at and every other row of
\* every table as they were.
C26_UpdateChangesOnlyWhatDiffers ==
    (ret.op = "update_employee" /\ ret.val = PyBool(TRUE)) =>
       /\ ret.touched \subseteq {<<ret.table, ret.row_id>>}
       /\ ret.before # None =>
             LET now == get_employee(rows, ret.table, ret.row_id) IN
             /\ now # None
             /\ now.deleted_at = ret.before.deleted_at
             /\ \A c \in Cols(ret.table) \ DOMAIN Valid(ret.table, ret.arg) :
                   now.f[c] = ret.before.f[c]
             /\ NoOpUpdate => now = ret.before

\* C29: an import leaves a table whose sheet cannot be read as it was, its
\* live and its soft-deleted rows alike, and returns the count 0 for it.
C29_UnreadableSheetLeavesTableUntouched ==
    [][ImportStep =>
         \A t \in TABLES :
            ret'.arg.sheets[t] = UNREADABLE =>
               /\ rows'[t] = rows[t]
               /\ ret'.val[t] = 0]_vars

\* an import whose genzai sheet cannot be read loaded the other tables and
\* left a soft-deleted genzai row in place
C29_Witness ==
    /\ ret.op = "import_from_excel"
    /\ ret.val # Raised("FileNotFoundError")
    /\ ret.arg.sheets["genzai"] = UNREADABLE
    /\ ret.touched # {}
    /\ \A q \in ret.touched : q[1] # "genzai"
    /\ \E i \in DOMAIN rows["genzai"] : rows["genzai"][i].deleted_at # NULL

\* C24: when two connections update the same row at overlapping times, the
\* old values an UPDATE audit row records are the values the row held
\* immediately before that call's own UPDATE statement, whatever the
\* interleaving.  (While a call's transaction is open no other connection can
\* commit, so the committed row is the row as it was before the call's write.)
C24_AuditOldValuesAreThePreWriteValues ==
    \A s \in Sessions :
       LET c == sess[s] IN
       (/\ c.pc \in 1..Len(c.plan)
        /\ c.call.op = "update_employee"
        /\ c.view # None
        /\ c.plan[c.pc].s = "audit") =>
          LET stored == get_employee(rows, c.call.table, c.call.row_id)
              changes == c.plan[c.pc].changes
          IN stored # None =>
                \A k \in DOMAIN changes : changes[k].old = StrOf(stored.f[k])

\* C25: an import that ends with an error has replaced the rows of no table;
\* an import that replaced the rows of any table has written its IMPORT audit
\* row.
C25_ImportIsAllOrNothing ==
    ret.op = "import_from_excel" =>
       /\ ret.val \in {Raised("sqlite3.Error"), Raised("FileNotFoundError")} =>
             ret.touched = {}
       /\ ret.touched # {} => ret.logged = 1

\* a statement of an import running on connection s
ImportTxnStep(s) ==
    /\ sess[s].pc > 0
    /\ sess[s].call.op = "import_from_excel"
    /\ sess'[s] # sess[s]

\* C28: what the other connections can read while an import runs changes, per
\* table, only from the rows the table held to the complete set of rows the
\* import loads into it: never to an emptied or a partly loaded table; the
\* summary's total for the table is the old count or the new one.
C28_ImportPublishesWholeTables ==
    [][\A s \in Sessions :
         ImportTxnStep(s) =>
            \A t \in TABLES :
               \/ rows'[t] = rows[t]
               \/ LET sheet == sess[s].call.arg.sheets[t] IN
                  /\ sheet # UNREADABLE
                  /\ DOMAIN rows'[t] \cap DOMAIN rows[t] = {}
                  /\ Cardinality(DOMAIN rows'[t]) = ImportCount(t, sess[s].call.arg)
                  /\ get_summary_stats(rows')[t].total = ImportCount(t, sess[s].call.arg)
                  /\ \A i \in DOMAIN rows'[t] :
                        /\ rows'[t][i].deleted_at = NULL
                        /\ \E k \in KeptRows(t, sheet) :
                              rows'[t][i].f = StoredAs(t, sheet, k)]_vars

\* an import is under way over tables an earlier import loaded: ukeoi already
\* holds its new row, staff still its old one
C28_Witness ==
    \E s \in Sessions :
       /\ sess[s].pc > 0
       /\ sess[s].call.op = "import_from_excel"
       /\ sess[s].view = None
       /\ DOMAIN rows["ukeoi"] = {2}
       /\ DOMAIN rows["staff"] = {1}

\* C27: a cached read of the dashboard serves what the store holds: every
\* mutation that succeeded before the read was followed by the clearing of
\* all five caches, so no entry computed before it is served.
C27_CachedReadsAreNeverStale ==
    ret.op \in CacheKeys => ret.val = Fresh(ret.op)

\* C30: a query of a ShainDaicho instance answers only if the most recent
\* load() returned True or the instance was built by from_dataframes;
\* otherwise, and so after a load() that returned False, it raises the
\* not-loaded error.
C30_QueriesNeedASuccessfulLoad ==
    (ret.op \in DaichoQueries /\ ret.val # Raised("RuntimeError")) =>
       \/ daicho.last = PyBool(TRUE)
       \/ daicho.built = "from_dataframes"

\* C10: no step removes or changes an audit row: the log after a step is the
\* log before it, possibly with rows added at the end.
C10_AuditAppendOnly ==
    [][/\ Len(audit') >= Len(audit)
       /\ SubSeq(audit', 1, Len(audit)) = audit]_vars

\* an import, truncation included, ran when the log already held two rows
C10_Witness ==
    /\ ret.op = "import_from_excel"
    /\ ret.logged = 1
    /\ ret.touched # {}
    /\ Len(audit) = 3

====
